---- MODULE Spec2Model ----
(***************************************************************************)
(* Model of scripts/generate_test_images.py (Canvas, its drawing           *)
(* primitives and the PNG writer) and of setup/support/button-monitor.py   *)
(* (the polling loop of main and the signal handler handle_exit).          *)
(*                                                                         *)
(* A Python list is a sequence; element i of the list is element i+1 of    *)
(* the sequence.  A store through an index follows Python's rules: a       *)
(* negative index counts from the end, an index outside [-n, n) raises     *)
(* IndexError.                                                             *)
(***************************************************************************)
EXTENDS Integers, Sequences, FiniteSets, TLC

VARIABLES
    pc,        \* position of the image script: "start", "ready", "line", "ret", "written"
    w, h,      \* Canvas.w, Canvas.h
    pixels,    \* Canvas.pixels: list of rows, each a list of (r,g,b)
    raised,    \* exception that escaped the last call, "none" if it returned
    call,      \* the drawing call in progress or just returned: [op, a, color]
    old,       \* Canvas.pixels when that call was entered
    ln,        \* locals of Canvas.line: x0, y0, x1, y1, dx, dy, sx, sy, err
    plots,     \* the (x, y) passed to self.set by the running line call, in order
    nops,      \* number of drawing calls made on the canvas
    file,      \* bytes written to the file opened by write_png
    mpc,       \* position of main in the button monitor
    running,   \* the module-level flag handle_exit clears
    button,    \* button.is_pressed, as the pin reads now
    elapsed,   \* time.monotonic() - pressed_at, in ticks of 1/TICKS_PER_SECOND s
    released,  \* an is_pressed read since pressed_at was taken returned False
    acts,      \* initiate_shutdown / toggle_display calls made for the press taken last
    shutdowns, \* calls of initiate_shutdown
    late       \* presses taken with the running flag already cleared

cvars == <<pc, w, h, pixels, raised, call, old, ln, plots, nops, file>>
mvars == <<mpc, running, button, elapsed, released, acts, shutdowns, late>>
vars == <<cvars, mvars>>

\* ---------------------------------------------------------------- bounds

\* Largest canvas width and height of the drawing script; coordinates run
\* from -1 to MaxDim, so both sides of every canvas edge are drawn at.
MaxDim == 2
\* Number of drawing calls made on one canvas.
MaxOps == 2
\* Largest canvas width and height when the line loop is followed step by step.
LineDim == 3

Dims == (-1)..MaxDim
Coords == (-1)..MaxDim
Radii == (-1)..MaxDim
\* Most ticks one time.sleep(0.05) may take: a sleep lasts at least what was asked.
MaxNap == 2

\* button-monitor.py: ticks per second (one time.sleep(0.05) is one tick), and
\* the two hold times in ticks, 5 s and 0.2 s.
TICKS_PER_SECOND == 20
SHUTDOWN_HOLD_SECONDS == 5
SHUTDOWN_HOLD_TICKS == SHUTDOWN_HOLD_SECONDS * TICKS_PER_SECOND
DISPLAY_OFF_HOLD_TICKS == 4

LineDims == (-1)..LineDim
LineCoords == (-1)..LineDim

\* ---------------------------------------------------------------- colours

SKY == <<135, 206, 235>>
GROUND == <<189, 183, 107>>
BLACK == <<0, 0, 0>>
Colors == {BLACK, SKY}

\* ---------------------------------------------------------------- helpers

Max(a, b) == IF a >= b THEN a ELSE b
Min(a, b) == IF a <= b THEN a ELSE b
Abs(a) == IF a >= 0 THEN a ELSE -a

\* [v for _ in range(n)]: n copies of v, none when n <= 0.
Repeat(v, n) == [i \in 1..n |-> v]

\* GroundY with round(h*0.75) for int(h*0.75): C3 tells the two apart
GroundYRounded(hh) == (3 * hh + 2) \div 4

\* int(h*0.75): the product is exact in floating point for these sizes and
\* int() truncates toward zero.
GroundY(hh) == IF hh >= 0 THEN (3 * hh) \div 4 ELSE -((3 * (-hh)) \div 4)

NoCall == [op |-> "none", a |-> <<>>, color |-> <<>>]
NoLine == [x0 |-> 0, y0 |-> 0, x1 |-> 0, y1 |-> 0, dx |-> 0, dy |-> 0,
           sx |-> 0, sy |-> 0, err |-> 0]

\* ---------------------------------------------------------------- Canvas

\* self.pixels[y][x] = color.  c is [pixels, raised]; once an exception is
\* raised the rest of the call is skipped.
StorePixel(c, x, y, color) ==
    IF c.raised # "none" THEN c
    ELSE LET n == Len(c.pixels)
             yi == IF y >= 0 THEN y + 1 ELSE n + y + 1
         IN  IF yi < 1 \/ yi > n THEN [c EXCEPT !.raised = "IndexError"]
             ELSE LET m == Len(c.pixels[yi])
                      xi == IF x >= 0 THEN x + 1 ELSE m + x + 1
                  IN  IF xi < 1 \/ xi > m THEN [c EXCEPT !.raised = "IndexError"]
                      ELSE [c EXCEPT !.pixels[yi][xi] = color]

\* for x in range(xa, xb): self.pixels[y][x] = color
RECURSIVE FillRow(_, _, _, _, _)
FillRow(c, y, xa, xb, color) ==
    IF xa >= xb THEN c
    ELSE FillRow(StorePixel(c, xa, y, color), y, xa + 1, xb, color)

\* for y in range(ya, yb): for x in range(xa, xb): self.pixels[y][x] = color
RECURSIVE FillRows(_, _, _, _, _, _)
FillRows(c, ya, yb, xa, xb, color) ==
    IF ya >= yb THEN c
    ELSE FillRows(FillRow(c, ya, xa, xb, color), ya + 1, yb, xa, xb, color)

\* Canvas.__init__
CanvasInit(ww, hh) ==
    FillRows([pixels |-> Repeat(Repeat(SKY, ww), hh), raised |-> "none"],
             GroundY(hh), hh, 0, ww, GROUND)

\* Canvas.set without the test of line 24: C8 rests on that test
CanvasSetUnguarded(c, ww, hh, x, y, color) == StorePixel(c, x, y, color)

\* Canvas.set
CanvasSet(c, ww, hh, x, y, color) ==
    IF 0 <= x /\ x < ww /\ 0 <= y /\ y < hh THEN StorePixel(c, x, y, color)
    ELSE c

\* Canvas.rect without max(0, .) on the lower ends: a negative index then
\* wraps to the far edge, which the frame condition of C5 excludes
CanvasRectUnclamped(c, ww, hh, x0, y0, x1, y1, color) ==
    FillRows(c, y0, Min(hh, y1), x0, Min(ww, x1), color)

\* Canvas.rect
CanvasRect(c, ww, hh, x0, y0, x1, y1, color) ==
    FillRows(c, Max(0, y0), Min(hh, y1), Max(0, x0), Min(ww, x1), color)

\* the body of circle's inner loop, for x in range(xa, xb)
RECURSIVE CircleRow(_, _, _, _, _, _, _, _, _, _)
CircleRow(c, ww, hh, cx, cy, r, y, xa, xb, color) ==
    IF xa >= xb THEN c
    ELSE LET c1 == IF 0 <= xa /\ xa < ww /\ 0 <= y /\ y < hh
                      /\ (xa - cx) * (xa - cx) + (y - cy) * (y - cy) <= r * r
                   THEN StorePixel(c, xa, y, color)
                   ELSE c
         IN  CircleRow(c1, ww, hh, cx, cy, r, y, xa + 1, xb, color)

RECURSIVE CircleRows(_, _, _, _, _, _, _, _, _)
CircleRows(c, ww, hh, cx, cy, r, ya, yb, color) ==
    IF ya >= yb THEN c
    ELSE CircleRows(CircleRow(c, ww, hh, cx, cy, r, ya, cx - r, cx + r, color),
                    ww, hh, cx, cy, r, ya + 1, yb, color)

\* Canvas.circle with the rows up to cy + r inclusive: C6 tells the closed
\* range from range(cy-r, cy+r)
CanvasCircleClosed(c, ww, hh, cx, cy, r, color) ==
    CircleRows(c, ww, hh, cx, cy, r, cy - r, cy + r + 1, color)

\* Canvas.circle
CanvasCircle(c, ww, hh, cx, cy, r, color) ==
    CircleRows(c, ww, hh, cx, cy, r, cy - r, cy + r, color)

\* LineLocals with dy = abs(y1-y0), not negated: the loop then runs past
\* the endpoint, which the plot count of C9 excludes
LineLocalsPositiveDy(x0, y0, x1, y1) ==
    [x0 |-> x0, y0 |-> y0, x1 |-> x1, y1 |-> y1,
     dx |-> Abs(x1 - x0), dy |-> Abs(y1 - y0),
     sx |-> IF x0 < x1 THEN 1 ELSE -1,
     sy |-> IF y0 < y1 THEN 1 ELSE -1,
     err |-> Abs(x1 - x0) + Abs(y1 - y0)]

\* Canvas.line, lines 37-40: the locals before the loop
LineLocals(x0, y0, x1, y1) ==
    [x0 |-> x0, y0 |-> y0, x1 |-> x1, y1 |-> y1,
     dx |-> Abs(x1 - x0), dy |-> -Abs(y1 - y0),
     sx |-> IF x0 < x1 THEN 1 ELSE -1,
     sy |-> IF y0 < y1 THEN 1 ELSE -1,
     err |-> Abs(x1 - x0) + (-Abs(y1 - y0))]

\* Canvas.line, lines 44-48: the locals after one iteration that did not break
LineAdvance(l) ==
    LET e2 == 2 * l.err
        stepx == e2 >= l.dy
        l1 == IF stepx THEN [l EXCEPT !.err = l.err + l.dy, !.x0 = l.x0 + l.sx]
              ELSE l
        stepy == e2 <= l.dx
    IN  IF stepy THEN [l1 EXCEPT !.err = l1.err + l.dx, !.y0 = l1.y0 + l.sy]
        ELSE l1

\* Canvas.line, lines 41-48: the loop run to its break
RECURSIVE LineLoop(_, _, _, _, _)
LineLoop(c, ww, hh, l, color) ==
    LET c1 == CanvasSet(c, ww, hh, l.x0, l.y0, color)
    IN  IF c1.raised # "none" \/ (l.x0 = l.x1 /\ l.y0 = l.y1) THEN c1
        ELSE LineLoop(c1, ww, hh, LineAdvance(l), color)

\* Canvas.line
CanvasLine(c, ww, hh, x0, y0, x1, y1, color) ==
    LineLoop(c, ww, hh, LineLocals(x0, y0, x1, y1), color)

\* ---------------------------------------------------------------- bytes

\* A 32-bit word is the set of the positions of its 1 bits (bit 0 the least
\* significant), so that words above 2^31 are representable.
Bit(S, b) == IF b \in S THEN 1 ELSE 0
BitsOf(n) == {b \in 0..30 : (n \div (2 ^ b)) % 2 = 1}
Xor(A, B) == {b \in 0..31 : (b \in A) # (b \in B)}
Shr(S) == {b \in 0..30 : b + 1 \in S}
Not32(S) == {b \in 0..31 : b \notin S}

\* byte j (0 the most significant) of a word
ByteOf(S, j) ==
    LET lo == 8 * (3 - j)
    IN  Bit(S, lo) + 2 * Bit(S, lo + 1) + 4 * Bit(S, lo + 2) + 8 * Bit(S, lo + 3)
        + 16 * Bit(S, lo + 4) + 32 * Bit(S, lo + 5) + 64 * Bit(S, lo + 6)
        + 128 * Bit(S, lo + 7)

\* struct.pack('>I', word)
PackWord(S) == <<ByteOf(S, 0), ByteOf(S, 1), ByteOf(S, 2), ByteOf(S, 3)>>

\* struct.pack('>I', n): the bytes, or struct.error for a negative n
PackU32(n) ==
    IF n < 0 THEN [raised |-> "struct.error", bytes |-> <<>>]
    ELSE [raised |-> "none", bytes |-> PackWord(BitsOf(n))]

\* the reflected IEEE 802.3 polynomial 0xEDB88320
CrcPoly == {31, 30, 29, 27, 26, 24, 23, 21, 20, 19, 15, 9, 8, 5}

\* one shift of the register: the polynomial is XORed in when a 1 bit is
\* shifted out
CrcStep(crc) == IF 0 \in crc THEN Xor(Shr(crc), CrcPoly) ELSE Shr(crc)

\* the CRC table: entry b is b after eight shifts
CrcTable ==
    [b \in 0..255 |->
        CrcStep(CrcStep(CrcStep(CrcStep(CrcStep(CrcStep(CrcStep(CrcStep(BitsOf(b)))))))))]

\* crc = table[(crc ^ byte) & 0xff] ^ (crc >> 8), for p = <<crc, byte>>
CrcByte[p \in (SUBSET (0..31)) \X (0..255)] ==
    Xor(CrcTable[ByteOf(Xor(p[1], BitsOf(p[2])), 3)], {b \in 0..23 : b + 8 \in p[1]})

\* zlib.crc32(data) & 0xffffffff, as a word: the register starts at all ones
\* and is complemented at the end
Crc32(data) ==
    LET reg[i \in 0..Len(data)] ==
            IF i = 0 THEN 0..31 ELSE CrcByte[<<reg[i - 1], data[i]>>]
    IN  Not32(reg[Len(data)])

\* one byte of Adler-32: a += byte, b += a, both modulo 65521, for
\* p = <<<<a, b>>, byte>>
AdlerByte[p \in ((0..65520) \X (0..65520)) \X (0..255)] ==
    <<(p[1][1] + p[2]) % 65521, (p[1][2] + ((p[1][1] + p[2]) % 65521)) % 65521>>

\* struct.pack('>I', (b << 16) | a) for s = <<a, b>>
AdlerPack(s) == <<s[2] \div 256, s[2] % 256, s[1] \div 256, s[1] % 256>>

\* the big-endian Adler-32 trailer of a zlib stream
Adler32Bytes(data) ==
    LET sums[i \in 0..Len(data)] ==
            IF i = 0 THEN <<1, 0>> ELSE AdlerByte[<<sums[i - 1], data[i]>>]
    IN  AdlerPack(sums[Len(data)])

\* LEN and its one's complement, little-endian, of a stored deflate block
StoredLen(len) == <<len % 256, len \div 256, 255 - (len % 256), 255 - (len \div 256)>>

\* zlib.compress(raw): the zlib header, the data, the Adler-32 of the data.
\* The deflate blocks are written as one final stored block (what zlib emits
\* at level 0); at the default level zlib picks another block type for the
\* same data, with the same header layout and the same trailer.
ZlibCompress(raw) ==
    <<120, 1, 1>> \o StoredLen(Len(raw)) \o raw \o Adler32Bytes(raw)

\* ---------------------------------------------------------------- png writer

TagIHDR == <<73, 72, 68, 82>>
TagIDAT == <<73, 68, 65, 84>>
TagIEND == <<73, 69, 78, 68>>
Signature == <<137, 80, 78, 71, 13, 10, 26, 10>>

\* chunk(tag, data)
Chunk(tag, data) ==
    PackU32(Len(data)).bytes \o tag \o data \o PackWord(Crc32(tag \o data))

\* RowBytes with the channels of a pixel in the order B, G, R: C1 compares
\* channel for channel
RowBytesBGR(row) ==
    [k \in 1..(3 * Len(row)) |-> row[((k - 1) \div 3) + 1][3 - ((k - 1) % 3)]]

\* bytes([c for rgb in row for c in rgb])
RowBytes(row) ==
    [k \in 1..(3 * Len(row)) |-> row[((k - 1) \div 3) + 1][((k - 1) % 3) + 1]]

\* write_png, lines 57-59: raw after the rows from i on are appended
RECURSIVE RawFrom(_, _)
RawFrom(rows, i) ==
    IF i > Len(rows) THEN <<>>
    ELSE <<0>> \o RowBytes(rows[i]) \o RawFrom(rows, i + 1)

\* struct.pack('>IIBBBBB', w, h, 8, 2, 0, 0, 0)
PackIHDR(ww, hh) ==
    LET pw == PackU32(ww)
        ph == PackU32(hh)
    IN  IF pw.raised # "none" THEN pw
        ELSE IF ph.raised # "none" THEN ph
        ELSE [raised |-> "none", bytes |-> pw.bytes \o ph.bytes \o <<8, 2, 0, 0, 0>>]

\* write_png: what the file holds when the call ends, and the exception it
\* ended with.  The signature is written before the header is packed.
WritePngResult(ww, hh, rows) ==
    LET raw == RawFrom(rows, 1)
        comp == ZlibCompress(raw)
        hdr == PackIHDR(ww, hh)
    IN  IF hdr.raised # "none"
        THEN [file |-> Signature, raised |-> hdr.raised]
        ELSE [file |-> Signature \o Chunk(TagIHDR, hdr.bytes) \o Chunk(TagIDAT, comp)
                       \o Chunk(TagIEND, <<>>),
              raised |-> "none"]

\* ---------------------------------------------------------------- actions

\* the image script before its first statement
ScriptInit ==
    /\ pc = "start"
    /\ w = 0 /\ h = 0 /\ pixels = <<>>
    /\ raised = "none"
    /\ call = NoCall /\ old = <<>>
    /\ ln = NoLine /\ plots = <<>>
    /\ nops = 0
    /\ file = <<>>

\* the button monitor when main reaches its loop: running = True (line 24),
\* the button not pressed (ButtonChange may press it before the first poll)
MonitorInit ==
    /\ mpc = "loop"
    /\ running = TRUE
    /\ button = FALSE
    /\ elapsed = 0
    /\ released = FALSE
    /\ acts = <<>>
    /\ shutdowns = 0
    /\ late = 0

Init == ScriptInit /\ MonitorInit

\* c = Canvas(w, h), with w and h drawn from D
CreateIn(D) ==
    /\ pc = "start"
    /\ \E ww \in D, hh \in D :
         LET c == CanvasInit(ww, hh)
         IN  /\ w' = ww /\ h' = hh
             /\ pixels' = c.pixels
             /\ raised' = c.raised
             /\ pc' = IF c.raised = "none" THEN "ready" ELSE "failed"
    /\ UNCHANGED <<call, old, ln, plots, nops, file, mvars>>

Create == CreateIn(Dims)

\* the script may make another drawing call
CanDraw == pc = "ready" /\ nops < MaxOps

\* a drawing call ran to its end: the canvas it left, the exception it raised,
\* and the call and the canvas it was entered with
Drawn(c, op, a, color) ==
    /\ pixels' = c.pixels
    /\ raised' = c.raised
    /\ call' = [op |-> op, a |-> a, color |-> color]
    /\ old' = pixels
    /\ pc' = "ret"
    /\ UNCHANGED <<w, h, ln, plots, nops, file, mvars>>

\* the canvas and the exception state a call is entered with
Entry == [pixels |-> pixels, raised |-> "none"]

\* c.set(x, y, color)
Set ==
    /\ CanDraw
    /\ \E x \in Coords, y \in Coords, color \in Colors :
         Drawn(CanvasSet(Entry, w, h, x, y, color), "set", <<x, y>>, color)

\* c.rect(x0, y0, x1, y1, color)
Rect ==
    /\ CanDraw
    /\ \E x0 \in Coords, y0 \in Coords, x1 \in Coords, y1 \in Coords, color \in Colors :
         Drawn(CanvasRect(Entry, w, h, x0, y0, x1, y1, color),
               "rect", <<x0, y0, x1, y1>>, color)

\* c.circle(cx, cy, r, color)
Circle ==
    /\ CanDraw
    /\ \E cx \in Coords, cy \in Coords, r \in Radii, color \in Colors :
         Drawn(CanvasCircle(Entry, w, h, cx, cy, r, color),
               "circle", <<cx, cy, r>>, color)

\* c.line(x0, y0, x1, y1, color)
Line ==
    /\ CanDraw
    /\ \E x0 \in Coords, y0 \in Coords, x1 \in Coords, y1 \in Coords, color \in Colors :
         Drawn(CanvasLine(Entry, w, h, x0, y0, x1, y1, color),
               "line", <<x0, y0, x1, y1>>, color)

\* the caller goes on to its next statement
Return ==
    /\ pc = "ret" /\ raised = "none"
    /\ pc' = "ready"
    /\ call' = NoCall /\ old' = <<>>
    /\ nops' = nops + 1
    /\ UNCHANGED <<w, h, pixels, raised, ln, plots, file, mvars>>

\* write_png(path, c)
WritePng ==
    /\ pc = "ready"
    /\ LET r == WritePngResult(w, h, pixels)
       IN  /\ file' = r.file
           /\ raised' = r.raised
    /\ pc' = "written"
    /\ UNCHANGED <<w, h, pixels, call, old, ln, plots, nops, mvars>>

Next == Create \/ Set \/ Rect \/ Circle \/ Line \/ Return \/ WritePng

Spec == Init /\ [][Next]_vars

\* ------------------------------------------------- the line loop, stepwise

LineCreate == CreateIn(LineDims)

\* c.line(x0, y0, x1, y1, color): entry, lines 37-40
LineCall ==
    /\ pc = "ready"
    /\ \E x0 \in LineCoords, y0 \in LineCoords, x1 \in LineCoords,
          y1 \in LineCoords, color \in Colors :
         /\ ln' = LineLocals(x0, y0, x1, y1)
         /\ call' = [op |-> "line", a |-> <<x0, y0, x1, y1>>, color |-> color]
    /\ old' = pixels
    /\ plots' = <<>>
    /\ pc' = "line"
    /\ UNCHANGED <<w, h, pixels, raised, nops, file, mvars>>

\* LineIter with the test of line 43 made before the plot of line 42: the
\* endpoint is then never plotted, which C7 requires
LineIterBreakFirst ==
    /\ pc = "line"
    /\ IF ln.x0 = ln.x1 /\ ln.y0 = ln.y1
       THEN /\ pc' = "ret"
            /\ UNCHANGED <<pixels, raised, plots, ln>>
       ELSE LET c == CanvasSet(Entry, w, h, ln.x0, ln.y0, call.color)
            IN  /\ pixels' = c.pixels
                /\ raised' = c.raised
                /\ plots' = Append(plots, <<ln.x0, ln.y0>>)
                /\ pc' = IF c.raised # "none" THEN "ret" ELSE "line"
                /\ ln' = LineAdvance(ln)
    /\ UNCHANGED <<w, h, call, old, nops, file, mvars>>

\* one iteration of the while True loop, lines 42-48
LineIter ==
    /\ pc = "line"
    /\ LET c == CanvasSet(Entry, w, h, ln.x0, ln.y0, call.color)
       IN  /\ pixels' = c.pixels
           /\ raised' = c.raised
           /\ plots' = Append(plots, <<ln.x0, ln.y0>>)
           /\ IF c.raised # "none" \/ (ln.x0 = ln.x1 /\ ln.y0 = ln.y1)
              THEN /\ pc' = "ret"
                   /\ ln' = ln
              ELSE /\ pc' = "line"
                   /\ ln' = LineAdvance(ln)
    /\ UNCHANGED <<w, h, call, old, nops, file, mvars>>

LineNext == LineCreate \/ LineCall \/ LineIter

LineSpec == Init /\ [][LineNext]_vars

\* ------------------------------------------------- button-monitor.py

\* while running (line 68); the loop left, main logs and returns 0 (81-82)
MLoop ==
    /\ mpc = "loop"
    /\ mpc' = IF running THEN "poll" ELSE "exit"
    /\ UNCHANGED <<running, button, elapsed, released, acts, shutdowns, late, cvars>>

\* if button.is_pressed: pressed_at = time.monotonic() (lines 69-70)
MPoll ==
    /\ mpc = "poll"
    /\ IF button
       THEN /\ mpc' = "held"
            /\ elapsed' = 0
            /\ released' = FALSE
            /\ acts' = <<>>
            /\ late' = IF running THEN late ELSE late + 1
       ELSE /\ mpc' = "sleep"
            /\ UNCHANGED <<elapsed, released, acts, late>>
    /\ UNCHANGED <<running, button, shutdowns, cvars>>

\* while button.is_pressed (line 71)
MHeld ==
    /\ mpc = "held"
    /\ IF button
       THEN mpc' = "check" /\ released' = released
       ELSE mpc' = "release" /\ released' = TRUE
    /\ UNCHANGED <<running, button, elapsed, acts, shutdowns, late, cvars>>

\* MCheck without the return of line 74: control falls to line 76 and the
\* toggle follows the shutdown, which C10 excludes
MCheckNoReturn ==
    /\ mpc = "check"
    /\ IF elapsed >= SHUTDOWN_HOLD_TICKS
       THEN /\ acts' = Append(acts, "shutdown")
            /\ shutdowns' = shutdowns + 1
            /\ mpc' = "release"
       ELSE /\ mpc' = "nap"
            /\ UNCHANGED <<acts, shutdowns>>
    /\ UNCHANGED <<running, button, elapsed, released, late, cvars>>

\* if time.monotonic() - pressed_at >= SHUTDOWN_HOLD_SECONDS:
\*     initiate_shutdown(); return 0 (lines 72-74)
MCheck ==
    /\ mpc = "check"
    /\ IF elapsed >= SHUTDOWN_HOLD_TICKS
       THEN /\ acts' = Append(acts, "shutdown")
            /\ shutdowns' = shutdowns + 1
            /\ mpc' = "exit"
       ELSE /\ mpc' = "nap"
            /\ UNCHANGED <<acts, shutdowns>>
    /\ UNCHANGED <<running, button, elapsed, released, late, cvars>>

\* time.sleep(0.05) (line 75)
MNap ==
    /\ mpc = "nap"
    /\ \E d \in 1..MaxNap : elapsed' = elapsed + d
    /\ mpc' = "held"
    /\ UNCHANGED <<running, button, released, acts, shutdowns, late, cvars>>

\* held_seconds = time.monotonic() - pressed_at
\* if held_seconds >= DISPLAY_OFF_HOLD_SECONDS: toggle_display() (lines 76-78)
MRelease ==
    /\ mpc = "release"
    /\ acts' = IF elapsed >= DISPLAY_OFF_HOLD_TICKS THEN Append(acts, "toggle") ELSE acts
    /\ mpc' = "sleep"
    /\ UNCHANGED <<running, button, elapsed, released, shutdowns, late, cvars>>

\* time.sleep(0.1) (line 79)
MSleep ==
    /\ mpc = "sleep"
    /\ mpc' = "loop"
    /\ UNCHANGED <<running, button, elapsed, released, acts, shutdowns, late, cvars>>

\* a step of main
MainStep == MLoop \/ MPoll \/ MHeld \/ MCheck \/ MNap \/ MRelease \/ MSleep

\* handle_exit: SIGTERM or SIGINT is delivered between two steps of main
HandleExit ==
    /\ mpc # "exit"
    /\ running
    /\ running' = FALSE
    /\ UNCHANGED <<mpc, button, elapsed, released, acts, shutdowns, late, cvars>>

\* the button is pressed or let go
ButtonChange ==
    /\ mpc # "exit"
    /\ button' = ~button
    /\ UNCHANGED <<mpc, running, elapsed, released, acts, shutdowns, late, cvars>>

MonitorNext ==
    MLoop \/ MPoll \/ MHeld \/ MCheck \/ MNap \/ MRelease \/ MSleep
    \/ HandleExit \/ ButtonChange

\* main keeps running: the interpreter executes its next statement and every
\* sleep returns.  Signals and the button are under no obligation.
MonitorSpec == Init /\ [][MonitorNext]_vars /\ WF_vars(MainStep)

\* ------------------------------------------------- reading the canvas

\* pixel (x, y) of a grid
At(p, x, y) == p[y + 1][x + 1]

\* the cells of the canvas: [0, w) x [0, h)
Cells == (0..(w - 1)) \X (0..(h - 1))

InBounds(x, y) == 0 <= x /\ x < w /\ 0 <= y /\ y < h

SameShape(p, q) ==
    /\ Len(p) = Len(q)
    /\ \A i \in 1..Len(p) : Len(p[i]) = Len(q[i])

\* a drawing call has returned to its caller
Returned(op) == pc = "ret" /\ call.op = op

\* ------------------------------------------------- reading a PNG stream

\* a big-endian 32-bit field
U32(b) == ((b[1] * 256 + b[2]) * 256 + b[3]) * 256 + b[4]

\* the chunk that starts at offset o of f
ReadChunk(f, o) ==
    LET len == U32(SubSeq(f, o, o + 3))
    IN  [len |-> len,
         tag |-> SubSeq(f, o + 4, o + 7),
         data |-> SubSeq(f, o + 8, o + 7 + len),
         crc |-> SubSeq(f, o + 8 + len, o + 11 + len),
         next |-> o + 12 + len]

\* a whole chunk starts at offset o of f, and its CRC field is the CRC-32 of
\* its tag and payload
ChunkAt(f, o) ==
    /\ o + 11 <= Len(f)
    /\ o + 11 + U32(SubSeq(f, o, o + 3)) <= Len(f)
    /\ ReadChunk(f, o).crc = PackWord(Crc32(ReadChunk(f, o).tag \o ReadChunk(f, o).data))

\* f is the signature and then the chunks IHDR, IDAT, IEND and nothing else
ThreeChunks(f) ==
    /\ Len(f) >= 8
    /\ SubSeq(f, 1, 8) = Signature
    /\ ChunkAt(f, 9)
    /\ ReadChunk(f, 9).tag = TagIHDR
    /\ ChunkAt(f, ReadChunk(f, 9).next)
    /\ LET idat == ReadChunk(f, ReadChunk(f, 9).next)
       IN  /\ idat.tag = TagIDAT
           /\ ChunkAt(f, idat.next)
           /\ ReadChunk(f, idat.next).tag = TagIEND
           /\ ReadChunk(f, idat.next).len = 0
           /\ ReadChunk(f, idat.next).crc = <<174, 66, 96, 130>>
           /\ ReadChunk(f, idat.next).next = Len(f) + 1

\* z is a zlib stream of one final stored block with a matching Adler-32
Inflatable(z) ==
    /\ Len(z) >= 11
    /\ z[1] = 120 /\ (z[1] * 256 + z[2]) % 31 = 0
    /\ z[3] = 1
    /\ z[6] = 255 - z[4] /\ z[7] = 255 - z[5]
    /\ Len(z) = 11 + z[4] + 256 * z[5]
    /\ SubSeq(z, Len(z) - 3, Len(z)) = Adler32Bytes(SubSeq(z, 8, Len(z) - 4))

\* the bytes z inflates to
Inflate(z) == SubSeq(z, 8, Len(z) - 4)

\* the pixel grid held by hh scanlines of 1 + 3*ww bytes
Scanlines(raw, ww, hh) ==
    [y \in 1..hh |-> [x \in 1..ww |->
        LET o == (y - 1) * (1 + 3 * ww) + 1 + 3 * (x - 1)
        IN  <<raw[o + 1], raw[o + 2], raw[o + 3]>>]]

\* what a decoder gets out of f: the size in IHDR and the bytes in IDAT
Decoded(f) ==
    LET ihdr == ReadChunk(f, 9)
        idat == ReadChunk(f, ihdr.next)
    IN  [w |-> U32(SubSeq(ihdr.data, 1, 4)),
         h |-> U32(SubSeq(ihdr.data, 5, 8)),
         raw |-> Inflate(idat.data)]

\* ------------------------------------------------- claims

\* C1: for a canvas with w, h > 0 reached by any drawing calls, the stream
\* write_png writes decodes (IHDR size, inflated IDAT split into h scanlines
\* of 1 + 3w bytes, each led by filter byte 0) to exactly the canvas grid.
C1_RoundTrip ==
    (pc = "written" /\ w > 0 /\ h > 0) =>
        /\ raised = "none"
        /\ ThreeChunks(file)
        /\ Inflatable(ReadChunk(file, ReadChunk(file, 9).next).data)
        /\ LET d == Decoded(file)
           IN  /\ d.w = w /\ d.h = h
               /\ Len(d.raw) = d.h * (1 + 3 * d.w)
               /\ \A y \in 1..d.h : d.raw[(y - 1) * (1 + 3 * d.w) + 1] = 0
               /\ \A c \in Cells :
                    At(Scanlines(d.raw, d.w, d.h), c[1], c[2]) = At(pixels, c[1], c[2])
               /\ Len(pixels) = d.h
               /\ \A y \in 1..d.h : Len(pixels[y]) = d.w

\* a drawn-on 2 x 2 canvas holding three different colours has been written
C1_Witness ==
    /\ pc = "written" /\ w = 2 /\ h = 2 /\ nops = MaxOps
    /\ raised = "none"
    /\ {At(pixels, c[1], c[2]) : c \in Cells} = {SKY, GROUND, BLACK}

\* C2: the stream write_png writes is the signature and then exactly the
\* chunks IHDR, IDAT, IEND, each framed as length, tag, payload, CRC-32 of
\* tag + payload; IHDR holds width, height, 8, 2, 0, 0, 0 and IEND is empty.
C2_Stream ==
    pc = "written" =>
        /\ ThreeChunks(file)
        /\ ReadChunk(file, 9).len = 13
        /\ ReadChunk(file, 9).data =
              PackWord(BitsOf(w)) \o PackWord(BitsOf(h)) \o <<8, 2, 0, 0, 0>>

\* C3: Canvas(w, h) with w, h > 0 is a full w x h grid, sky in the rows
\* y < floor(h * 0.75) and ground below; y < floor(3h/4) iff 4(y + 1) <= 3h.
C3_Background ==
    (pc = "ready" /\ nops = 0 /\ w > 0 /\ h > 0) =>
        /\ Len(pixels) = h
        /\ \A y \in 0..(h - 1) :
             /\ Len(pixels[y + 1]) = w
             /\ \A x \in 0..(w - 1) :
                  At(pixels, x, y) = IF 4 * (y + 1) <= 3 * h THEN SKY ELSE GROUND

\* a fresh canvas of height 2, where truncation and rounding of 1.5 differ
C3_Witness ==
    /\ pc = "ready" /\ nops = 0 /\ w = 2 /\ h = 2
    /\ At(pixels, 0, 0) = SKY /\ At(pixels, 0, 1) = GROUND

\* C4: creating a canvas with w <= 0 or h <= 0 fails: no Canvas comes out of
\* the call.
C4_InvalidRejected ==
    (pc # "start" /\ (w <= 0 \/ h <= 0)) => (pc = "failed" /\ raised # "none")

\* C5 as claimed: after rect, a pixel equals color iff it lies in the
\* half-open rectangle (and in bounds), and the others keep their value.
C5_RectIff ==
    Returned("rect") =>
        /\ raised = "none"
        /\ SameShape(pixels, old)
        /\ \A c \in Cells :
             LET inside == /\ call.a[1] <= c[1] /\ c[1] < call.a[3]
                           /\ call.a[2] <= c[2] /\ c[2] < call.a[4]
             IN  /\ (At(pixels, c[1], c[2]) = call.color) <=> inside
                 /\ ~inside => At(pixels, c[1], c[2]) = At(old, c[1], c[2])

\* C5 as amended: after rect, every pixel of the half-open rectangle that is
\* in bounds equals color, and every other pixel keeps the value it had.
C5_RectFrame ==
    Returned("rect") =>
        /\ raised = "none"
        /\ SameShape(pixels, old)
        /\ \A c \in Cells :
             LET inside == /\ call.a[1] <= c[1] /\ c[1] < call.a[3]
                           /\ call.a[2] <= c[2] /\ c[2] < call.a[4]
             IN  At(pixels, c[1], c[2]) =
                    IF inside THEN call.color ELSE At(old, c[1], c[2])

\* a rect that overhangs the canvas has repainted a pixel, and a pixel
\* outside it already had its colour
C5_Witness ==
    /\ Returned("rect") /\ w = 2 /\ h = 2
    /\ call.a = <<-1, -1, 1, 1>>
    /\ At(old, 0, 0) # call.color /\ At(pixels, 0, 0) = call.color
    /\ At(old, 1, 0) = call.color /\ At(pixels, 1, 1) = GROUND

\* C6 as claimed: after circle, a pixel equals color iff it is in bounds and
\* (x-cx)^2 + (y-cy)^2 <= r^2; a zero or negative radius fills nothing.
C6_DiskIff ==
    Returned("circle") =>
        /\ raised = "none"
        /\ \A c \in Cells :
             (At(pixels, c[1], c[2]) = call.color) <=>
                 ((c[1] - call.a[1]) * (c[1] - call.a[1])
                  + (c[2] - call.a[2]) * (c[2] - call.a[2]) <= call.a[3] * call.a[3])
        /\ call.a[3] <= 0 => pixels = old

\* C6 as amended: after circle, a pixel in bounds equals color if it lies in
\* the box [cx-r, cx+r) x [cy-r, cy+r) and (x-cx)^2 + (y-cy)^2 <= r^2; every
\* other pixel keeps its value; a zero or negative radius fills nothing.
C6_DiskInBox ==
    Returned("circle") =>
        /\ raised = "none"
        /\ SameShape(pixels, old)
        /\ \A c \in Cells :
             LET cx == call.a[1]
                 cy == call.a[2]
                 r == call.a[3]
                 inside == /\ cx - r <= c[1] /\ c[1] < cx + r
                           /\ cy - r <= c[2] /\ c[2] < cy + r
                           /\ (c[1] - cx) * (c[1] - cx) + (c[2] - cy) * (c[2] - cy) <= r * r
             IN  At(pixels, c[1], c[2]) =
                    IF inside THEN call.color ELSE At(old, c[1], c[2])
        /\ call.a[3] <= 0 => pixels = old

\* circle(0, 0, 1) has painted (0, 0) and left (1, 0), at distance 1 from
\* the centre, as it was
C6_Witness ==
    /\ Returned("circle") /\ w = 2 /\ h = 2
    /\ call.a = <<0, 0, 1>> /\ call.color = BLACK
    /\ At(old, 0, 0) = SKY /\ At(pixels, 0, 0) = BLACK
    /\ At(pixels, 1, 0) = SKY

\* the arguments of the line call in progress or just returned
LineFrom == <<call.a[1], call.a[2]>>
LineTo == <<call.a[3], call.a[4]>>
LineLong == Max(Abs(call.a[3] - call.a[1]), Abs(call.a[4] - call.a[2]))
Adjacent(p, q) == Max(Abs(p[1] - q[1]), Abs(p[2] - q[2])) = 1

\* C7: a line between in-bounds endpoints with |x1-x0| = |y1-y0| = n plots
\* exactly (x0 + i*sx, y0 + i*sy), i = 0..n, each once, sets them to color
\* and changes no other pixel.
C7_Diagonal ==
    (/\ Returned("line")
     /\ InBounds(call.a[1], call.a[2]) /\ InBounds(call.a[3], call.a[4])
     /\ Abs(call.a[3] - call.a[1]) = Abs(call.a[4] - call.a[2])) =>
        LET n == Abs(call.a[3] - call.a[1])
            sx == IF call.a[1] < call.a[3] THEN 1 ELSE -1
            sy == IF call.a[2] < call.a[4] THEN 1 ELSE -1
            diag == [i \in 1..(n + 1) |->
                        <<call.a[1] + (i - 1) * sx, call.a[2] + (i - 1) * sy>>]
        IN  /\ raised = "none"
            /\ plots = diag
            /\ \A c \in Cells :
                 At(pixels, c[1], c[2]) =
                    IF \E i \in 1..(n + 1) : diag[i] = c THEN call.color
                    ELSE At(old, c[1], c[2])

\* the line (2, 0)-(0, 2) has been drawn on a 3 x 3 canvas
C7_Witness ==
    /\ Returned("line") /\ w = 3 /\ h = 3
    /\ call.a = <<2, 0, 0, 2>> /\ call.color = BLACK
    /\ Len(plots) = 3
    /\ At(pixels, 1, 1) = BLACK /\ At(pixels, 0, 0) = SKY

\* C8: set, rect, circle and line never fail on out-of-range arguments, leave
\* the size of the canvas alone, and set with (x, y) out of bounds changes
\* no pixel.
C8_Clipped ==
    pc = "ret" =>
        /\ raised = "none"
        /\ SameShape(pixels, old)
        /\ Len(pixels) = Max(h, 0)
        /\ \A y \in 1..Len(pixels) : Len(pixels[y]) = Max(w, 0)
        /\ (call.op = "set" /\ ~InBounds(call.a[1], call.a[2])) => pixels = old
        /\ (call.op = "set" /\ InBounds(call.a[1], call.a[2])) =>
             \A c \in Cells :
                At(pixels, c[1], c[2]) =
                    IF c = call.a THEN call.color ELSE At(old, c[1], c[2])

\* set(-1, 2, color) has returned on a 2 x 2 canvas
C8_Witness ==
    /\ pc = "ret" /\ w = 2 /\ h = 2 /\ nops = 1 /\ pixels = old
    /\ call.op = "set" /\ call.a = <<-1, 2>>

\* C9: the line loop ends after max(|x1-x0|, |y1-y0|) + 1 plots: the first
\* is (x0, y0), each next one is 8-adjacent to the one before, the last is
\* (x1, y1), and (x1, y1) is plotted only then.
C9_LineLoop ==
    /\ pc = "line" =>
         /\ Len(plots) <= LineLong
         /\ \A i \in 1..Len(plots) : plots[i] # LineTo
         /\ IF plots = <<>> THEN <<ln.x0, ln.y0>> = LineFrom
            ELSE /\ plots[1] = LineFrom
                 /\ Adjacent(plots[Len(plots)], <<ln.x0, ln.y0>>)
    /\ Returned("line") =>
         /\ raised = "none"
         /\ Len(plots) = LineLong + 1
         /\ plots[1] = LineFrom
         /\ plots[Len(plots)] = LineTo
         /\ \A i \in 1..(Len(plots) - 1) :
              plots[i] # LineTo /\ Adjacent(plots[i], plots[i + 1])

\* a line of slope 1/2 with one end off the canvas has ended
C9_Witness ==
    /\ Returned("line") /\ w = 3 /\ h = 3
    /\ call.a = <<-1, 0, 3, 2>>
    /\ Len(plots) = 5

\* what the monitor has done for the press taken last: at most one action;
\* shutdown only after SHUTDOWN_HOLD_SECONDS of is_pressed reading True, at
\* most once, and main has then returned; a toggle only after a release and
\* DISPLAY_OFF_HOLD_SECONDS; nothing for a shorter press
OneActionPerPress ==
    /\ Len(acts) <= 1
    /\ shutdowns <= 1
    /\ (shutdowns = 1) <=> (acts = <<"shutdown">>)
    /\ acts = <<"shutdown">> =>
         (elapsed >= SHUTDOWN_HOLD_TICKS /\ ~released /\ mpc = "exit")
    /\ acts = <<"toggle">> => (released /\ elapsed >= DISPLAY_OFF_HOLD_TICKS)
    /\ (released /\ elapsed < DISPLAY_OFF_HOLD_TICKS) => acts = <<>>

\* the outer loop, once it tests the cleared flag, leaves
LeavesOnClearedFlag ==
    [][(mpc = "loop" /\ ~running) => (mpc' = "loop" \/ mpc' = "exit")]_vars

\* C10 as claimed: one action per press at most (shutdown after a continuous
\* hold of SHUTDOWN_HOLD_SECONDS, once, and then return; toggle on release
\* after DISPLAY_OFF_HOLD_SECONDS; nothing for a shorter press); once the
\* running flag is cleared no new press is taken and the monitor exits.
C10_NoPressAfterSignal ==
    /\ []OneActionPerPress
    /\ LeavesOnClearedFlag
    /\ [](late = 0)
    /\ (~running ~> mpc = "exit")

\* C10 as amended: as claimed, except that after the running flag is cleared
\* the monitor may take one more press, the one whose `while running` test
\* passed before the signal arrived; the outer loop starts no iteration once
\* it has tested the cleared flag, and the monitor exits.
C10_OnePressAfterSignal ==
    /\ []OneActionPerPress
    /\ LeavesOnClearedFlag
    /\ [](late <= 1)
    /\ (~running ~> mpc = "exit")

\* the monitor has exited after a signal, having toggled the display for a
\* press it took after the signal
C10_Witness ==
    /\ mpc = "exit" /\ ~running /\ late = 1
    /\ released /\ acts = <<"toggle">>

====
